---- MODULE Spec2Model ----
(***************************************************************************)
(* pgxWrappy: the reflective column-to-field mapping (GetColumnNames,      *)
(* StructFieldsPointers and their tree walks) and the two scanning         *)
(* operations built on it (Get, Select) of the pool and the transaction    *)
(* wrapper.                                                                *)
(*                                                                         *)
(* A struct type is the sequence of its fields in declaration order.  A    *)
(* field is a record                                                       *)
(*   [name, tag, exported, anonymous, kind, fields]                        *)
(* where tag is the value of the `db` struct tag ("" when absent), kind is *)
(* "scalar", "struct" or "ptr" (reflect.Kind of the field value; "ptr" is  *)
(* a pointer to a struct) and fields is the type of a struct field or of   *)
(* the struct pointed to (<<>> for a scalar).  A field of an instance      *)
(* is addressed by its path: the sequence of field indices from the root.  *)
(* Column names are strings, built with the code's own concatenation.      *)
(***************************************************************************)
EXTENDS Integers, Sequences, FiniteSets, TLC

VARIABLES
    T,          \* the struct type of the destination (of its elements, for Select)
    op,         \* "none" or the function that was called and has returned
    dest,       \* the destination argument of Get / Select
    reply,      \* what the database collaborator answers to the call's query
    slice0,     \* the destination slice before Select
    slice,      \* the destination slice
    rec,        \* the destination struct of Get: path -> value
    columns,    \* the column names the call derived or read
    fields,     \* the field references the call located last
    err,        \* the error returned
    rows,       \* the result set of Select: [obtained, closed]
    calls       \* the calls made to the collaborator, in order

vars == <<T, op, dest, reply, slice0, slice, rec, columns, fields, err, rows, calls>>

-----------------------------------------------------------------------------
(* Bounds *)

\* number of fields, over all nesting levels, of a generated struct type
MaxNodes == 3

\* number of rows a result set holds at most
MaxRows == 2

-----------------------------------------------------------------------------
(* Errors: the messages of the code; nil is NoErr *)

NoErr == "nil"
ErrDestNotStructPtr == "dest must be a pointer to a struct"
ErrInputNotStructPtr == "input must be a pointer to a struct"
ErrNoField(col) == "no matching struct field found for column " \o col
ErrDestNotSlicePtr == "dest must be a pointer to a slice"
ErrElemNotStruct == "slice elements must be structs or pointers to structs"

\* errors of the collaborator (pgx): the empty-result error of Row.Scan, a
\* failed query, a failed row scan, a failed iteration, and Scan's refusal of
\* a number of destinations other than the number of columns
ErrNoRows == "no rows in result set"
ErrQuery == "query failed"
ErrScan == "cannot scan value"
ErrIter == "iteration failed"
ErrColumnCount == "number of field descriptions must equal number of destinations"

-----------------------------------------------------------------------------
(* Struct types *)

FieldNames == <<"ID", "Name", "Email", "Age", "City">>
FieldTags == <<"id", "name", "email", "age", "city">>
PrivateNames == <<"id0", "name0", "email0", "age0", "city0">>

\* the declarations a field at position pos of its struct may carry
FieldDecls(pos) ==
    { [name |-> FieldNames[pos], tag |-> t, exported |-> TRUE, anonymous |-> a]
        : t \in {"", "-", FieldTags[pos]}, a \in BOOLEAN }
    \cup { [name |-> PrivateNames[pos], tag |-> FieldTags[pos],
            exported |-> FALSE, anonymous |-> FALSE] }

ScalarField(d) ==
    [name |-> d.name, tag |-> d.tag, exported |-> d.exported,
     anonymous |-> d.anonymous, kind |-> "scalar", fields |-> <<>>]

StructField(d, sub) ==
    [name |-> d.name, tag |-> d.tag, exported |-> d.exported,
     anonymous |-> d.anonymous, kind |-> "struct", fields |-> sub]

RECURSIVE StructTypes(_)
\* the struct types with exactly n fields over all nesting levels
StructTypes(n) ==
    IF n = 0 THEN { <<>> }
    ELSE UNION { UNION {
            { Append(init, IF k = 1 THEN ScalarField(d) ELSE StructField(d, sub))
                : d \in FieldDecls(Len(init) + 1),
                  sub \in IF k = 1 THEN { <<>> } ELSE StructTypes(k - 1) }
            : init \in StructTypes(n - k) } : k \in 1..n }

Shapes == UNION { StructTypes(n) : n \in 1..MaxNodes }

-----------------------------------------------------------------------------
(* Destinations: what the caller passes as dest / strct.  kind is         *)
(* reflect.ValueOf(dest).Kind(), elem is the Kind() of its Elem()          *)
(* ("invalid" for the zero Value a nil pointer gives), type is the struct  *)
(* type pointed to.                                                        *)

(* For a slice, elemKind is the Kind() of its element type and elemElem    *)
(* the Kind() of what a pointer element type points to.                    *)

Dest(kind, elem, elemKind, elemElem, t) ==
    [kind |-> kind, elem |-> elem, elemKind |-> elemKind, elemElem |-> elemElem,
     type |-> t]

StructPtr(t) == Dest("ptr", "struct", "invalid", "invalid", t)          \* &User{}
SlicePtr(t) == Dest("ptr", "slice", "struct", "invalid", t)             \* &[]User
PtrSlicePtr(t) == Dest("ptr", "slice", "ptr", "struct", t)              \* &[]*User

\* destinations Get supports, and some it does not: a struct passed by value,
\* a pointer to an int, an untyped nil, a nil *User
GetDests(t) ==
    { StructPtr(t),
      Dest("struct", "invalid", "invalid", "invalid", t),
      Dest("ptr", "int", "invalid", "invalid", <<>>),
      Dest("invalid", "invalid", "invalid", "invalid", <<>>),
      Dest("ptr", "invalid", "invalid", "invalid", t) }

\* destinations Select supports, and some it does not: a slice passed by
\* value, a pointer to a struct, &[]int, &[]*int
SelectDests(t) ==
    { SlicePtr(t), PtrSlicePtr(t),
      Dest("slice", "invalid", "struct", "invalid", t),
      StructPtr(t),
      Dest("ptr", "slice", "int", "invalid", <<>>),
      Dest("ptr", "slice", "ptr", "int", <<>>) }

\* reflect.Value of the struct an instance holds at path
StructValue(t, path) == [fields |-> t, path |-> path]

\* v.Field(i)
FieldValue(v, i) == StructValue(v.fields[i].fields, Append(v.path, i))

-----------------------------------------------------------------------------
(* The two tree walks *)

RECURSIVE CollectFields(_, _, _), CollectFieldsAt(_, _, _, _)
RECURSIVE CollectColumnNames(_, _, _), CollectColumnNamesAt(_, _, _, _)

\* CollectFieldsAt with every field tagged "-" skipped, struct or not
CollectFieldsAtDashSkipped(v, i, prefix, fieldMap) ==
    IF i > Len(v.fields) THEN fieldMap
    ELSE
        LET field == v.fields[i]
            fieldValue == FieldValue(v, i)
            tag == IF field.tag = "" THEN field.name ELSE field.tag
            colName == IF prefix # "" /\ ~field.anonymous
                       THEN prefix \o "_" \o tag
                       ELSE tag
            after ==
                IF ~field.exported \/ field.tag = "-" THEN fieldMap
                ELSE IF field.kind = "struct"
                THEN CollectFields(fieldValue, colName, fieldMap)
                ELSE (colName :> fieldValue.path) @@ fieldMap
        IN  CollectFieldsAt(v, i + 1, prefix, after)

\* CollectFieldsAt with the fields that cannot be set collected like the others
CollectFieldsAtUnsettableKept(v, i, prefix, fieldMap) ==
    IF i > Len(v.fields) THEN fieldMap
    ELSE
        LET field == v.fields[i]
            fieldValue == FieldValue(v, i)
            tag == IF field.tag = "" THEN field.name ELSE field.tag
            colName == IF prefix # "" /\ ~field.anonymous
                       THEN prefix \o "_" \o tag
                       ELSE tag
            after ==
                IF field.tag = "-"
                THEN IF field.kind = "struct"
                     THEN CollectFields(fieldValue, prefix, fieldMap)
                     ELSE fieldMap
                ELSE IF field.kind = "struct"
                THEN CollectFields(fieldValue, colName, fieldMap)
                ELSE (colName :> fieldValue.path) @@ fieldMap
        IN  CollectFieldsAt(v, i + 1, prefix, after)

\* the iteration i of CollectFields' loop and the iterations after it
CollectFieldsAt(v, i, prefix, fieldMap) ==
    IF i > Len(v.fields) THEN fieldMap
    ELSE
        LET field == v.fields[i]
            fieldValue == FieldValue(v, i)
            tag == IF field.tag = "" THEN field.name ELSE field.tag
            colName == IF prefix # "" /\ ~field.anonymous
                       THEN prefix \o "_" \o tag
                       ELSE tag
            after ==
                IF ~field.exported THEN fieldMap
                ELSE IF field.tag = "-"
                THEN IF field.kind = "struct"
                     THEN CollectFields(fieldValue, prefix, fieldMap)
                     ELSE fieldMap
                ELSE IF field.kind = "struct"
                THEN CollectFields(fieldValue, colName, fieldMap)
                ELSE (colName :> fieldValue.path) @@ fieldMap
        IN  CollectFieldsAt(v, i + 1, prefix, after)

\* fieldMap: column name -> path of the field
CollectFields(v, prefix, fieldMap) == CollectFieldsAt(v, 1, prefix, fieldMap)

EmptyMap == [c \in {} |-> <<>>]

RECURSIVE LookupColumns(_, _, _, _)

\* LookupColumns passing over a column that no field is mapped to
LookupColumnsLenient(fieldMap, cols, i, refs) ==
    IF i > Len(cols) THEN [fields |-> refs, err |-> NoErr]
    ELSE IF cols[i] \notin DOMAIN fieldMap
    THEN LookupColumns(fieldMap, cols, i + 1, refs)
    ELSE LookupColumns(fieldMap, cols, i + 1, Append(refs, fieldMap[cols[i]]))

\* LookupColumns putting each reference in front of the ones found before
LookupColumnsReversed(fieldMap, cols, i, refs) ==
    IF i > Len(cols) THEN [fields |-> refs, err |-> NoErr]
    ELSE IF cols[i] \notin DOMAIN fieldMap
    THEN [fields |-> <<>>, err |-> ErrNoField(cols[i])]
    ELSE LookupColumns(fieldMap, cols, i + 1, << fieldMap[cols[i]] >> \o refs)

\* the lookup loop of StructFieldsPointers from column i on
LookupColumns(fieldMap, cols, i, refs) ==
    IF i > Len(cols) THEN [fields |-> refs, err |-> NoErr]
    ELSE IF cols[i] \notin DOMAIN fieldMap
    THEN [fields |-> <<>>, err |-> ErrNoField(cols[i])]
    ELSE LookupColumns(fieldMap, cols, i + 1, Append(refs, fieldMap[cols[i]]))

\* StructFieldsPointers returning the references in declaration order,
\* whatever the order of the columns given
StructFieldsPointersPositional(strct, cols) ==
    IF strct.kind # "ptr" \/ strct.elem # "struct"
    THEN [fields |-> <<>>, err |-> ErrInputNotStructPtr]
    ELSE LET fieldMap == CollectFields(StructValue(strct.type, <<>>), "", EmptyMap)
             found == LookupColumns(fieldMap, cols, 1, <<>>)
             sorted == LookupColumns(fieldMap,
                            SelectSeq(CollectColumnNames(
                                          StructValue(strct.type, <<>>), "", <<>>),
                                      LAMBDA c : \E j \in DOMAIN cols : cols[j] = c),
                            1, <<>>)
         IN  IF found.err # NoErr \/ Len(sorted.fields) # Len(cols)
             THEN found ELSE sorted

StructFieldsPointers(strct, cols) ==
    IF strct.kind # "ptr" \/ strct.elem # "struct"
    THEN [fields |-> <<>>, err |-> ErrInputNotStructPtr]
    ELSE LookupColumns(CollectFields(StructValue(strct.type, <<>>), "", EmptyMap),
                       cols, 1, <<>>)

\* The earlier variant of the walk (pgx_wrapper.go:653-697).  Its value is
\* [fieldMap, rec]: it may set a pointer field of the instance it walks.
\* rec[path] = 0 is the nil pointer.
RECURSIVE collectFields(_, _, _), collectFieldsAt(_, _, _, _)

collectFieldsAt(v, i, prefix, acc) ==
    IF i > Len(v.fields) THEN acc
    ELSE
        LET field == v.fields[i]
            fieldValue == FieldValue(v, i)
            tag == IF field.tag = "" THEN field.name ELSE field.tag
            colName == IF prefix # "" THEN prefix \o "_" \o tag ELSE tag
            IsNil == /\ fieldValue.path \in DOMAIN acc.rec
                     /\ acc.rec[fieldValue.path] = 0
            \* fieldValue.Elem().Kind(): Elem() of a nil pointer is the zero
            \* Value, whose Kind() is Invalid
            elemKind == IF field.kind = "ptr" /\ ~IsNil THEN "struct" ELSE "invalid"
            \* fieldValue.Set(reflect.New(...)) under `if fieldValue.IsNil()`
            entered == IF field.kind = "ptr" /\ IsNil
                       THEN [acc EXCEPT !.rec[fieldValue.path] = 1]
                       ELSE acc
            after ==
                IF ~field.exported \/ field.tag = "-" THEN acc
                ELSE IF \/ field.kind = "struct" /\ field.anonymous
                        \/ field.kind = "ptr" /\ elemKind = "struct"
                THEN collectFields(fieldValue, colName, entered)
                ELSE [acc EXCEPT !.fieldMap = (colName :> fieldValue.path) @@ @]
        IN  collectFieldsAt(v, i + 1, prefix, after)

collectFields(v, prefix, acc) == collectFieldsAt(v, 1, prefix, acc)

\* pgx_wrapper.go:630-651, on the instance r
structFieldsPointers(strct, cols, r) ==
    IF strct.kind # "ptr" \/ strct.elem # "struct"
    THEN [fields |-> <<>>, err |-> ErrInputNotStructPtr, rec |-> r]
    ELSE LET walked == collectFields(StructValue(strct.type, <<>>), "",
                                     [fieldMap |-> EmptyMap, rec |-> r])
             found == LookupColumns(walked.fieldMap, cols, 1, <<>>)
         IN  [fields |-> found.fields, err |-> found.err, rec |-> walked.rec]

\* CollectColumnNamesAt with the declared name used whatever the tag
CollectColumnNamesAtNameOnly(v, i, prefix, cols) ==
    IF i > Len(v.fields) THEN cols
    ELSE
        LET field == v.fields[i]
            fieldValue == FieldValue(v, i)
            tag == field.name
            colName == IF prefix # "" /\ ~field.anonymous
                       THEN prefix \o "_" \o tag
                       ELSE tag
            after ==
                IF ~field.exported THEN cols
                ELSE IF field.tag = "-"
                THEN IF field.kind = "struct"
                     THEN CollectColumnNames(fieldValue, prefix, cols)
                     ELSE cols
                ELSE IF field.kind = "struct"
                THEN CollectColumnNames(fieldValue, colName, cols)
                ELSE Append(cols, colName)
        IN  CollectColumnNamesAt(v, i + 1, prefix, after)

\* the iteration i of CollectColumnNames' loop and the iterations after it
CollectColumnNamesAt(v, i, prefix, cols) ==
    IF i > Len(v.fields) THEN cols
    ELSE
        LET field == v.fields[i]
            fieldValue == FieldValue(v, i)
            tag == IF field.tag = "" THEN field.name ELSE field.tag
            colName == IF prefix # "" /\ ~field.anonymous
                       THEN prefix \o "_" \o tag
                       ELSE tag
            after ==
                IF ~field.exported THEN cols
                ELSE IF field.tag = "-"
                THEN IF field.kind = "struct"
                     THEN CollectColumnNames(fieldValue, prefix, cols)
                     ELSE cols
                ELSE IF field.kind = "struct"
                THEN CollectColumnNames(fieldValue, colName, cols)
                ELSE Append(cols, colName)
        IN  CollectColumnNamesAt(v, i + 1, prefix, after)

CollectColumnNames(v, prefix, cols) == CollectColumnNamesAt(v, 1, prefix, cols)

\* GetColumnNames checking only that the destination is a pointer
GetColumnNamesAnyPtr(d) ==
    IF d.kind # "ptr"
    THEN [columns |-> <<>>, err |-> ErrDestNotStructPtr]
    ELSE [columns |-> CollectColumnNames(StructValue(d.type, <<>>), "", <<>>),
          err |-> NoErr]

GetColumnNames(d) ==
    IF d.kind # "ptr" \/ d.elem # "struct"
    THEN [columns |-> <<>>, err |-> ErrDestNotStructPtr]
    ELSE [columns |-> CollectColumnNames(StructValue(d.type, <<>>), "", <<>>),
          err |-> NoErr]

-----------------------------------------------------------------------------
(* Declared destination types of the scanning operations *)

Column(name, tag) ==
    [name |-> name, tag |-> tag, exported |-> TRUE, anonymous |-> FALSE,
     kind |-> "scalar", fields |-> <<>>]
Nested(name, tag, sub) ==
    [name |-> name, tag |-> tag, exported |-> TRUE, anonymous |-> FALSE,
     kind |-> "struct", fields |-> sub]
Embedded(name, sub) ==
    [name |-> name, tag |-> "", exported |-> TRUE, anonymous |-> TRUE,
     kind |-> "struct", fields |-> sub]
Unexported(name, tag) ==
    [name |-> name, tag |-> tag, exported |-> FALSE, anonymous |-> FALSE,
     kind |-> "scalar", fields |-> <<>>]

User == << Column("ID", "id"), Column("Name", "name") >>
Address == << Column("Street", "street"), Column("City", "city") >>
UserFlat == << Column("ID", "id"), Nested("Address", "-", Address) >>
UserAddress == << Column("ID", "id"), Nested("Address", "address", Address) >>
UserEmbedded == << Embedded("Base", << Column("ID", "id") >>), Column("Name", "name") >>
UserHidden ==
    << Column("ID", "id"), Unexported("secret", "secret"), Column("Skip", "-"),
       Column("Note", "") >>
UserTwice == << Column("ID", "id"), Column("Key", "id") >>

\* a nested struct held by pointer: Address *Address `db:"address"`
Reference(name, tag, sub) ==
    [name |-> name, tag |-> tag, exported |-> TRUE, anonymous |-> FALSE,
     kind |-> "ptr", fields |-> sub]
UserRef == << Column("ID", "id"), Reference("Address", "address", Address) >>

UserDeep ==
    << Column("ID", "id"),
       Nested("Profile", "profile", << Nested("Address", "address", Address) >>) >>

\* the declared types, and every struct type of one or two fields
DestTypes ==
    { User, UserFlat, UserAddress, UserEmbedded, UserHidden, UserTwice, UserDeep,
      UserRef }
    \cup StructTypes(1) \cup StructTypes(2)

-----------------------------------------------------------------------------
(* Instances: the value of every scalar field, by path *)

RECURSIVE LeafPaths(_, _)
LeafPaths(t, path) ==
    UNION { IF t[i].kind = "struct"
            THEN LeafPaths(t[i].fields, Append(path, i))
            ELSE { Append(path, i) } : i \in DOMAIN t }

\* reflect.New(elemType), and the zero value a caller's `var user User` holds
Zero(t) == [p \in LeafPaths(t, <<>>) |-> 0]

\* an element the caller put into the slice before the call
Old(t) == [p \in LeafPaths(t, <<>>) |-> 7]

-----------------------------------------------------------------------------
(* The collaborator.  A response db is what the database answers to one    *)
(* query: queryErr the error of the query, cols the column names of the    *)
(* result, n its number of rows, scanErrAt the row whose scan fails (0:    *)
(* none), iterErr the error rows.Err() reports once Next has returned      *)
(* false.  The value of column j of row i is Val(i, j).                    *)

Val(i, j) == 10 * i + j

RowValues(db, i) == [j \in 1..Len(db.cols) |-> Val(i, j)]

\* Scan stores the values through the references, first to last
RECURSIVE Store(_, _, _, _)
Store(r, refs, vals, j) ==
    IF j > Len(refs) THEN r
    ELSE Store([r EXCEPT ![refs[j]] = vals[j]], refs, vals, j + 1)

\* rows.Scan(fields...) on row i of the result set
RowsScan(db, i, refs, r) ==
    IF Len(refs) # Len(db.cols) THEN [err |-> ErrColumnCount, rec |-> r]
    ELSE IF db.scanErrAt = i THEN [err |-> ErrScan, rec |-> r]
    ELSE [err |-> NoErr, rec |-> Store(r, refs, RowValues(db, i), 1)]

\* row.Scan(fields...) on the row QueryRow returned: the query's error, the
\* empty-result error when there is no row, else the scan of the first row
RowScan(db, refs, r) ==
    IF db.queryErr # NoErr THEN [err |-> db.queryErr, rec |-> r]
    ELSE IF db.n = 0
    THEN [err |-> IF db.iterErr # NoErr THEN db.iterErr ELSE ErrNoRows, rec |-> r]
    ELSE RowsScan(db, 1, refs, r)

-----------------------------------------------------------------------------
(* Get: Wrapper.Get and TxWrapper.Get have the same body; conn is the      *)
(* receiver's connection, "pool" or "Tx".                                  *)

\* GetReturn with the scan's error wrapped in a message of Get's own
GetReturnWrapped(scanErr) ==
    IF scanErr # NoErr THEN "get: " \o scanErr ELSE NoErr

\* lines 68-72: the scan's error is returned as it is
GetReturn(scanErr) == IF scanErr # NoErr THEN scanErr ELSE NoErr

\* GetBody locating the fields by the column names of the result, as Select does
GetBodyByResultColumns(conn, d, r, db) ==
    IF d.kind # "ptr" \/ d.elem # "struct"
    THEN [err |-> ErrDestNotStructPtr, rec |-> r, columns |-> <<>>,
          fields |-> <<>>, calls |-> <<>>]
    ELSE
        LET derived == GetColumnNames(d)
            located == StructFieldsPointers(d, db.cols)
            scanned == RowScan(db, located.fields, r)
        IN  IF located.err # NoErr
            THEN [err |-> located.err, rec |-> r, columns |-> derived.columns,
                  fields |-> <<>>, calls |-> << conn \o ".QueryRow" >>]
            ELSE [err |-> GetReturn(scanned.err), rec |-> scanned.rec,
                  columns |-> derived.columns, fields |-> located.fields,
                  calls |-> << conn \o ".QueryRow", "row.Scan" >>]

\* GetBody asking for the row before it looks at the destination
GetBodyQueryFirst(conn, d, r, db) ==
    IF d.kind # "ptr" \/ d.elem # "struct"
    THEN [err |-> ErrDestNotStructPtr, rec |-> r, columns |-> <<>>,
          fields |-> <<>>, calls |-> << conn \o ".QueryRow" >>]
    ELSE
        LET derived == GetColumnNames(d)
            located == StructFieldsPointers(d, derived.columns)
            scanned == RowScan(db, located.fields, r)
        IN  [err |-> GetReturn(scanned.err), rec |-> scanned.rec,
             columns |-> derived.columns, fields |-> located.fields,
             calls |-> << conn \o ".QueryRow", "row.Scan" >>]

GetBody(conn, d, r, db) ==
    IF d.kind # "ptr" \/ d.elem # "struct"
    THEN [err |-> ErrDestNotStructPtr, rec |-> r, columns |-> <<>>,
          fields |-> <<>>, calls |-> <<>>]
    ELSE
        LET derived == GetColumnNames(d)
            located == StructFieldsPointers(d, derived.columns)
            scanned == RowScan(db, located.fields, r)
        IN  IF derived.err # NoErr
            THEN [err |-> derived.err, rec |-> r, columns |-> <<>>,
                  fields |-> <<>>, calls |-> <<>>]
            ELSE IF located.err # NoErr
            THEN [err |-> located.err, rec |-> r, columns |-> derived.columns,
                  fields |-> <<>>, calls |-> <<>>]
            ELSE [err |-> GetReturn(scanned.err), rec |-> scanned.rec,
                  columns |-> derived.columns, fields |-> located.fields,
                  calls |-> << conn \o ".QueryRow", "row.Scan" >>]

WrapperGet(d, r, db) == GetBody("pool", d, r, db)

\* tx_wrapper.go:33-60
TxWrapperGet(d, r, db) ==
    IF d.kind # "ptr" \/ d.elem # "struct"
    THEN [err |-> ErrDestNotStructPtr, rec |-> r, columns |-> <<>>,
          fields |-> <<>>, calls |-> <<>>]
    ELSE
        LET derived == GetColumnNames(d)
            located == StructFieldsPointers(d, derived.columns)
            scanned == RowScan(db, located.fields, r)
        IN  IF derived.err # NoErr
            THEN [err |-> derived.err, rec |-> r, columns |-> <<>>,
                  fields |-> <<>>, calls |-> <<>>]
            ELSE IF located.err # NoErr
            THEN [err |-> located.err, rec |-> r, columns |-> derived.columns,
                  fields |-> <<>>, calls |-> <<>>]
            ELSE IF scanned.err # NoErr
            THEN [err |-> scanned.err, rec |-> scanned.rec,
                  columns |-> derived.columns, fields |-> located.fields,
                  calls |-> << "Tx.QueryRow", "row.Scan" >>]
            ELSE [err |-> NoErr, rec |-> scanned.rec,
                  columns |-> derived.columns, fields |-> located.fields,
                  calls |-> << "Tx.QueryRow", "row.Scan" >>]

-----------------------------------------------------------------------------
(* Select: Wrapper.Select and TxWrapper.Select have the same body *)

\* AppendElem putting the new element in front of the slice
AppendElemFront(sliceVal, ptrToStruct, elem) ==
    << [ptr |-> ptrToStruct, rec |-> elem] >> \o sliceVal

\* AppendElem with the branch of the struct elements left out
AppendElemPtrOnly(sliceVal, ptrToStruct, elem) ==
    IF ptrToStruct
    THEN Append(sliceVal, [ptr |-> TRUE, rec |-> elem])
    ELSE sliceVal

\* lines 117-121: the element appended is the pointer or the struct it points to
AppendElem(sliceVal, ptrToStruct, elem) ==
    IF ptrToStruct
    THEN Append(sliceVal, [ptr |-> TRUE, rec |-> elem])
    ELSE Append(sliceVal, [ptr |-> FALSE, rec |-> elem])

RECURSIVE SelectRows(_, _, _, _, _, _, _)

\* SelectRows appending the element of the row whose scan failed
SelectRowsKeepFailed(db, elemType, ptrToStruct, cols, i, sliceVal, log) ==
    IF i > db.n
    THEN [err |-> db.iterErr, slice |-> sliceVal, fields |-> <<>>,
          calls |-> log \o << "rows.Next", "rows.Err" >>]
    ELSE
        LET located == StructFieldsPointers(StructPtr(elemType), cols)
            scanned == RowsScan(db, i, located.fields, Zero(elemType))
        IN  IF located.err # NoErr
            THEN [err |-> located.err, slice |-> sliceVal, fields |-> <<>>,
                  calls |-> Append(log, "rows.Next")]
            ELSE IF scanned.err # NoErr
            THEN [err |-> scanned.err,
                  slice |-> AppendElem(sliceVal, ptrToStruct, scanned.rec),
                  fields |-> located.fields,
                  calls |-> log \o << "rows.Next", "rows.Scan" >>]
            ELSE SelectRows(db, elemType, ptrToStruct, cols, i + 1,
                            AppendElem(sliceVal, ptrToStruct, scanned.rec),
                            log \o << "rows.Next", "rows.Scan" >>)

\* lines 105-128: the iteration of row i and the ones after it
SelectRows(db, elemType, ptrToStruct, cols, i, sliceVal, log) ==
    IF i > db.n
    THEN [err |-> db.iterErr, slice |-> sliceVal, fields |-> <<>>,
          calls |-> log \o << "rows.Next", "rows.Err" >>]
    ELSE
        LET located == StructFieldsPointers(StructPtr(elemType), cols)
            scanned == RowsScan(db, i, located.fields, Zero(elemType))
        IN  IF located.err # NoErr
            THEN [err |-> located.err, slice |-> sliceVal, fields |-> <<>>,
                  calls |-> Append(log, "rows.Next")]
            ELSE IF scanned.err # NoErr
            THEN [err |-> scanned.err, slice |-> sliceVal,
                  fields |-> located.fields,
                  calls |-> log \o << "rows.Next", "rows.Scan" >>]
            ELSE SelectRows(db, elemType, ptrToStruct, cols, i + 1,
                            AppendElem(sliceVal, ptrToStruct, scanned.rec),
                            log \o << "rows.Next", "rows.Scan" >>)

\* SelectRun filling the slice from empty, what it held before dropped
SelectRunFromEmpty(db, d, sliceVal, log) ==
    IF d.kind # "ptr" \/ d.elem # "slice"
    THEN [err |-> ErrDestNotSlicePtr, slice |-> sliceVal, fields |-> <<>>,
          calls |-> log]
    ELSE IF d.elemKind # "struct" /\ ~(d.elemKind = "ptr" /\ d.elemElem = "struct")
    THEN [err |-> ErrElemNotStruct, slice |-> sliceVal, fields |-> <<>>,
          calls |-> log]
    ELSE SelectRows(db, d.type, d.elemKind = "ptr", db.cols, 1, <<>>,
                    Append(log, "rows.FieldDescriptions"))

\* SelectRun locating the fields once, before the first row is asked for
SelectRunLocateFirst(db, d, sliceVal, log) ==
    IF d.kind # "ptr" \/ d.elem # "slice"
    THEN [err |-> ErrDestNotSlicePtr, slice |-> sliceVal, fields |-> <<>>,
          calls |-> log]
    ELSE IF d.elemKind # "struct" /\ ~(d.elemKind = "ptr" /\ d.elemElem = "struct")
    THEN [err |-> ErrElemNotStruct, slice |-> sliceVal, fields |-> <<>>,
          calls |-> log]
    ELSE IF StructFieldsPointers(StructPtr(d.type), db.cols).err # NoErr
    THEN [err |-> StructFieldsPointers(StructPtr(d.type), db.cols).err,
          slice |-> sliceVal, fields |-> <<>>,
          calls |-> Append(log, "rows.FieldDescriptions")]
    ELSE SelectRows(db, d.type, d.elemKind = "ptr", db.cols, 1, sliceVal,
                    Append(log, "rows.FieldDescriptions"))

\* SelectRun taking every element type that is no pointer to a struct for a
\* struct
SelectRunAnyElem(db, d, sliceVal, log) ==
    IF d.kind # "ptr" \/ d.elem # "slice"
    THEN [err |-> ErrDestNotSlicePtr, slice |-> sliceVal, fields |-> <<>>,
          calls |-> log]
    ELSE SelectRows(db, d.type, d.elemKind = "ptr" /\ d.elemElem = "struct",
                    db.cols, 1, sliceVal, Append(log, "rows.FieldDescriptions"))

\* lines 83-128: what runs between the query and the deferred rows.Close()
SelectRun(db, d, sliceVal, log) ==
    IF d.kind # "ptr" \/ d.elem # "slice"
    THEN [err |-> ErrDestNotSlicePtr, slice |-> sliceVal, fields |-> <<>>,
          calls |-> log]
    ELSE IF d.elemKind = "ptr" /\ d.elemElem = "struct"
    THEN SelectRows(db, d.type, TRUE, db.cols, 1, sliceVal,
                    Append(log, "rows.FieldDescriptions"))
    ELSE IF d.elemKind # "struct"
    THEN [err |-> ErrElemNotStruct, slice |-> sliceVal, fields |-> <<>>,
          calls |-> log]
    ELSE SelectRows(db, d.type, FALSE, db.cols, 1, sliceVal,
                    Append(log, "rows.FieldDescriptions"))

\* SelectBody looking at the destination before it makes the query
SelectBodyValidateFirst(conn, d, sliceVal, db) ==
    IF d.kind # "ptr" \/ d.elem # "slice"
    THEN [err |-> ErrDestNotSlicePtr, slice |-> sliceVal, columns |-> <<>>,
          fields |-> <<>>, calls |-> <<>>,
          rows |-> [obtained |-> FALSE, closed |-> FALSE]]
    ELSE IF d.elemKind # "struct" /\ ~(d.elemKind = "ptr" /\ d.elemElem = "struct")
    THEN [err |-> ErrElemNotStruct, slice |-> sliceVal, columns |-> <<>>,
          fields |-> <<>>, calls |-> <<>>,
          rows |-> [obtained |-> FALSE, closed |-> FALSE]]
    ELSE IF db.queryErr # NoErr
    THEN [err |-> db.queryErr, slice |-> sliceVal, columns |-> <<>>,
          fields |-> <<>>, calls |-> << conn \o ".Query" >>,
          rows |-> [obtained |-> FALSE, closed |-> FALSE]]
    ELSE
        LET r == SelectRun(db, d, sliceVal, << conn \o ".Query" >>)
        IN  [err |-> r.err, slice |-> r.slice, columns |-> db.cols,
             fields |-> r.fields, calls |-> Append(r.calls, "rows.Close"),
             rows |-> [obtained |-> TRUE, closed |-> TRUE]]

\* SelectBody with the result set closed at the end of the success path only
SelectBodyCloseAtEnd(conn, d, sliceVal, db) ==
    IF db.queryErr # NoErr
    THEN [err |-> db.queryErr, slice |-> sliceVal, columns |-> <<>>,
          fields |-> <<>>, calls |-> << conn \o ".Query" >>,
          rows |-> [obtained |-> FALSE, closed |-> FALSE]]
    ELSE
        LET r == SelectRun(db, d, sliceVal, << conn \o ".Query" >>)
        IN  [err |-> r.err, slice |-> r.slice, columns |-> db.cols,
             fields |-> r.fields,
             calls |-> IF r.err = NoErr THEN Append(r.calls, "rows.Close")
                       ELSE r.calls,
             rows |-> [obtained |-> TRUE, closed |-> r.err = NoErr]]

\* lines 77-81 and the deferred rows.Close() around the rest of the body
SelectBody(conn, d, sliceVal, db) ==
    IF db.queryErr # NoErr
    THEN [err |-> db.queryErr, slice |-> sliceVal, columns |-> <<>>,
          fields |-> <<>>, calls |-> << conn \o ".Query" >>,
          rows |-> [obtained |-> FALSE, closed |-> FALSE]]
    ELSE
        LET r == SelectRun(db, d, sliceVal, << conn \o ".Query" >>)
        IN  [err |-> r.err, slice |-> r.slice, columns |-> db.cols,
             fields |-> r.fields, calls |-> Append(r.calls, "rows.Close"),
             rows |-> [obtained |-> TRUE, closed |-> TRUE]]

WrapperSelect(d, sliceVal, db) == SelectBody("pool", d, sliceVal, db)

RECURSIVE TxSelectRows(_, _, _, _, _, _, _)

\* TxSelectRows returning nil at the end of the rows, rows.Err() not asked
TxSelectRowsErrUnchecked(db, elemType, ptrToStruct, cols, i, sliceVal, log) ==
    IF i > db.n
    THEN [err |-> NoErr, slice |-> sliceVal, fields |-> <<>>,
          calls |-> Append(log, "rows.Next")]
    ELSE
        LET located == StructFieldsPointers(StructPtr(elemType), cols)
            scanned == RowsScan(db, i, located.fields, Zero(elemType))
        IN  IF located.err # NoErr
            THEN [err |-> located.err, slice |-> sliceVal, fields |-> <<>>,
                  calls |-> Append(log, "rows.Next")]
            ELSE IF scanned.err # NoErr
            THEN [err |-> scanned.err, slice |-> sliceVal,
                  fields |-> located.fields,
                  calls |-> log \o << "rows.Next", "rows.Scan" >>]
            ELSE TxSelectRows(db, elemType, ptrToStruct, cols, i + 1,
                    Append(sliceVal, [ptr |-> ptrToStruct, rec |-> scanned.rec]),
                    log \o << "rows.Next", "rows.Scan" >>)

\* tx_wrapper.go:92-115: the iteration of row i and the ones after it
TxSelectRows(db, elemType, ptrToStruct, cols, i, sliceVal, log) ==
    IF i > db.n
    THEN [err |-> db.iterErr, slice |-> sliceVal, fields |-> <<>>,
          calls |-> log \o << "rows.Next", "rows.Err" >>]
    ELSE
        LET located == StructFieldsPointers(StructPtr(elemType), cols)
            scanned == RowsScan(db, i, located.fields, Zero(elemType))
        IN  IF located.err # NoErr
            THEN [err |-> located.err, slice |-> sliceVal, fields |-> <<>>,
                  calls |-> Append(log, "rows.Next")]
            ELSE IF scanned.err # NoErr
            THEN [err |-> scanned.err, slice |-> sliceVal,
                  fields |-> located.fields,
                  calls |-> log \o << "rows.Next", "rows.Scan" >>]
            ELSE TxSelectRows(db, elemType, ptrToStruct, cols, i + 1,
                    Append(sliceVal, [ptr |-> ptrToStruct, rec |-> scanned.rec]),
                    log \o << "rows.Next", "rows.Scan" >>)

\* tx_wrapper.go:63-116; rows.Close() is deferred from line 68 on
TxWrapperSelect(d, sliceVal, db) ==
    IF db.queryErr # NoErr
    THEN [err |-> db.queryErr, slice |-> sliceVal, columns |-> <<>>,
          fields |-> <<>>, calls |-> << "Tx.Query" >>,
          rows |-> [obtained |-> FALSE, closed |-> FALSE]]
    ELSE
        LET ptrToStruct == d.elemKind = "ptr" /\ d.elemElem = "struct"
            r == IF d.kind # "ptr" \/ d.elem # "slice"
                 THEN [err |-> ErrDestNotSlicePtr, slice |-> sliceVal,
                       fields |-> <<>>, calls |-> << "Tx.Query" >>]
                 ELSE IF ~ptrToStruct /\ d.elemKind # "struct"
                 THEN [err |-> ErrElemNotStruct, slice |-> sliceVal,
                       fields |-> <<>>, calls |-> << "Tx.Query" >>]
                 ELSE TxSelectRows(db, d.type, ptrToStruct, db.cols, 1, sliceVal,
                                   << "Tx.Query", "rows.FieldDescriptions" >>)
        IN  [err |-> r.err, slice |-> r.slice, columns |-> db.cols,
             fields |-> r.fields, calls |-> Append(r.calls, "rows.Close"),
             rows |-> [obtained |-> TRUE, closed |-> TRUE]]

-----------------------------------------------------------------------------
(* The helpers applied to every struct type *)

\* before any call: nothing asked of the collaborator, nothing returned
NoReply == [queryErr |-> NoErr, cols |-> <<>>, n |-> 0, scanErrAt |-> 0,
            iterErr |-> NoErr]
NoRows == [obtained |-> FALSE, closed |-> FALSE]

Idle ==
    /\ op = "none"
    /\ dest = StructPtr(T)
    /\ reply = NoReply
    /\ slice0 = <<>>
    /\ slice = <<>>
    /\ rec = Zero(T)
    /\ columns = <<>>
    /\ fields = <<>>
    /\ err = NoErr
    /\ rows = NoRows
    /\ calls = <<>>

InitWalk == T \in Shapes /\ Idle

\* GetColumnNames on a destination of the caller's, supported or not
CallGetColumnNames ==
    /\ op = "none"
    /\ \E d \in GetDests(T) :
        LET r == GetColumnNames(d)
        IN  /\ dest' = d
            /\ columns' = r.columns
            /\ err' = r.err
    /\ op' = "GetColumnNames"
    /\ UNCHANGED <<T, reply, slice0, slice, rec, fields, rows, calls>>

\* StructFieldsPointers on the names GetColumnNames returned
CallStructFieldsPointers ==
    /\ op = "GetColumnNames"
    /\ err = NoErr
    /\ LET r == StructFieldsPointers(dest, columns)
       IN  /\ fields' = r.fields
           /\ err' = r.err
    /\ op' = "StructFieldsPointers"
    /\ UNCHANGED <<T, dest, reply, slice0, slice, rec, columns, rows, calls>>

\* the sequences without repetition of some of the names cols
SubOrders(cols) ==
    UNION { { [j \in 1..k |-> cols[f[j]]] :
                f \in { g \in [1..k -> DOMAIN cols] :
                            \A a, b \in 1..k : a # b => g[a] # g[b] } }
            : k \in 0..Len(cols) }

\* what a result column made for a field the walks pass over could be called:
\* the declared name and the tag of every unexported field and of every
\* scalar field tagged "-", alone and behind the prefix of its struct
RECURSIVE ExcludedNames(_, _)
ExcludedNames(t, prefix) ==
    UNION { LET f == t[i]
                tag == IF f.tag = "" THEN f.name ELSE f.tag
                colName == IF prefix # "" /\ ~f.anonymous
                           THEN prefix \o "_" \o tag
                           ELSE tag
                own == { f.name, tag } \cup
                       (IF prefix = "" THEN {}
                        ELSE { prefix \o "_" \o f.name, prefix \o "_" \o tag })
            IN  IF ~f.exported THEN own
                ELSE IF f.kind = "struct"
                THEN ExcludedNames(f.fields, IF f.tag = "-" THEN prefix ELSE colName)
                ELSE IF f.tag = "-" THEN own
                ELSE {}
            : i \in DOMAIN t }

\* t with the structs held by pointer held by value
RECURSIVE Deref(_)
Deref(t) ==
    [i \in DOMAIN t |->
        [t[i] EXCEPT !.kind = IF @ = "ptr" THEN "struct" ELSE @,
                     !.fields = Deref(@)]]

\* the column names a caller may pass for a destination of type t: some of
\* its derived names in some order (of the names of what its pointers point
\* to as well), and names no field is mapped to
ColumnInputs(t) ==
    LET cols == GetColumnNames(StructPtr(t)).columns
    IN  SubOrders(cols)
        \cup SubOrders(GetColumnNames(StructPtr(Deref(t))).columns)
        \cup { <<c>> : c \in ExcludedNames(t, "") \cup {"extra_col"} }
        \cup { Append(cols, c) : c \in ExcludedNames(t, "") \cup {"extra_col"} }

\* StructFieldsPointers on a destination and column names of the caller's
CallStructFieldsPointersOn ==
    /\ op = "none"
    /\ \E d \in GetDests(T), cols \in ColumnInputs(T) :
        LET r == StructFieldsPointers(d, cols)
        IN  /\ dest' = d
            /\ columns' = cols
            /\ fields' = r.fields
            /\ err' = r.err
    /\ op' = "StructFieldsPointers(columns)"
    /\ UNCHANGED <<T, reply, slice0, slice, rec, rows, calls>>

\* the earlier structFieldsPointers on the destination as it is before a call
CallstructFieldsPointers ==
    /\ op = "none"
    /\ \E d \in GetDests(T), cols \in ColumnInputs(T) :
        LET r == structFieldsPointers(d, cols, rec)
        IN  /\ dest' = d
            /\ columns' = cols
            /\ fields' = r.fields
            /\ err' = r.err
            /\ rec' = r.rec
    /\ op' = "structFieldsPointers"
    /\ UNCHANGED <<T, reply, slice0, slice, rows, calls>>

NextWalk ==
    \/ CallGetColumnNames
    \/ CallStructFieldsPointers
    \/ CallStructFieldsPointersOn
    \/ CallstructFieldsPointers

SpecWalk == InitWalk /\ [][NextWalk]_vars

-----------------------------------------------------------------------------
(* Get and Select on the declared destination types *)

\* the orders in which a query may return the columns cols
ColumnOrders(cols) ==
    { [j \in 1..Len(cols) |-> cols[f[j]]] :
        f \in { g \in [1..Len(cols) -> 1..Len(cols)] :
                    \A a, b \in 1..Len(cols) : a # b => g[a] # g[b] } }

\* the result columns of the queries: the columns of the destination type in
\* any order, with columns no field is declared for, with one column missing
ColumnChoices(t) ==
    LET cols == GetColumnNames(StructPtr(t)).columns
    IN  ColumnOrders(cols)
        \cup { Append(cols, "extra_col"), << "extra_col" >> \o cols,
               [cols EXCEPT ![1] = "extra_col"],
               << "other_col" >> \o cols \o << "extra_col" >>,
               SubSeq(cols, 1, Len(cols) - 1) }

Replies(t) ==
    { [queryErr |-> ErrQuery, cols |-> <<>>, n |-> 0, scanErrAt |-> 0,
       iterErr |-> NoErr] }
    \cup { [queryErr |-> NoErr, cols |-> c, n |-> n, scanErrAt |-> k, iterErr |-> e]
            : c \in ColumnChoices(t), n \in 0..MaxRows,
              k \in 0..MaxRows, e \in {NoErr, ErrIter} }

\* what the destination slice may hold before the call
Slices0(d) ==
    IF d.kind = "slice" \/ (d.kind = "ptr" /\ d.elem = "slice")
    THEN { <<>>, << [ptr |-> d.elemKind = "ptr", rec |-> Old(d.type)] >> }
    ELSE { <<>> }

Init == T \in DestTypes /\ Idle

Returned(name, d, q, r) ==
    /\ op' = name
    /\ dest' = d
    /\ reply' = q
    /\ columns' = r.columns
    /\ fields' = r.fields
    /\ err' = r.err
    /\ calls' = r.calls

CallWrapperGet ==
    /\ op = "none"
    /\ \E d \in GetDests(T), q \in Replies(T) :
        LET r == WrapperGet(d, rec, q)
        IN  Returned("Wrapper.Get", d, q, r) /\ rec' = r.rec
    /\ UNCHANGED <<T, slice0, slice, rows>>

CallTxWrapperGet ==
    /\ op = "none"
    /\ \E d \in GetDests(T), q \in Replies(T) :
        LET r == TxWrapperGet(d, rec, q)
        IN  Returned("TxWrapper.Get", d, q, r) /\ rec' = r.rec
    /\ UNCHANGED <<T, slice0, slice, rows>>

CallWrapperSelect ==
    /\ op = "none"
    /\ \E d \in SelectDests(T), q \in Replies(T) : \E s0 \in Slices0(d) :
        LET r == WrapperSelect(d, s0, q)
        IN  /\ Returned("Wrapper.Select", d, q, r)
            /\ slice0' = s0
            /\ slice' = r.slice
            /\ rows' = r.rows
    /\ UNCHANGED <<T, rec>>

CallTxWrapperSelect ==
    /\ op = "none"
    /\ \E d \in SelectDests(T), q \in Replies(T) : \E s0 \in Slices0(d) :
        LET r == TxWrapperSelect(d, s0, q)
        IN  /\ Returned("TxWrapper.Select", d, q, r)
            /\ slice0' = s0
            /\ slice' = r.slice
            /\ rows' = r.rows
    /\ UNCHANGED <<T, rec>>

Next ==
    \/ CallWrapperGet
    \/ CallTxWrapperGet
    \/ CallWrapperSelect
    \/ CallTxWrapperSelect
    \/ CallGetColumnNames
    \/ CallStructFieldsPointers
    \/ CallStructFieldsPointersOn
    \/ CallstructFieldsPointers

Spec == Init /\ [][Next]_vars

-----------------------------------------------------------------------------
(* Properties of the tree walks (checked under SpecWalk) *)

StartsWith(s, p) == Len(s) >= Len(p) /\ SubSeq(s, 1, Len(p)) = p

IsNestedRecord(f) == f.exported /\ f.kind = "struct"

\* the column names a struct type derives, and the ones one field contributes
ColumnsOf(t) == GetColumnNames(StructPtr(t)).columns
Contribution(f) == ColumnsOf(<<f>>)

\* t with its field i replaced by the fields of that field's struct type
Spliced(t, i) == SubSeq(t, 1, i - 1) \o t[i].fields \o SubSeq(t, i + 1, Len(t))

\* C5: StructFieldsPointers, given exactly the names GetColumnNames returned
\* for the same destination, does not fail and returns one reference per name.
C5_RoundTrip ==
    op = "StructFieldsPointers" => err = NoErr /\ Len(fields) = Len(columns)

C5_Witness ==
    /\ op = "StructFieldsPointers"
    /\ Len(columns) = 2
    /\ \E i \in DOMAIN T : IsNestedRecord(T[i]) /\ T[i].tag = "-"

\* the fields of a flat struct type that GetColumnNames does not exclude
KeptFields(t) == SelectSeq(t, LAMBDA f : f.exported /\ f.tag # "-")

\* C6: for a struct type with no nested records GetColumnNames returns, in
\* declaration order, the db tag of each field or, the tag being empty, its
\* declared name.
C6_FlatOrder ==
    ( /\ op = "GetColumnNames"
      /\ dest = StructPtr(T)
      /\ \A i \in DOMAIN T : T[i].kind = "scalar" )
        => /\ err = NoErr
           /\ columns = [i \in 1..Len(KeptFields(T)) |->
                            IF KeptFields(T)[i].tag = ""
                            THEN KeptFields(T)[i].name
                            ELSE KeptFields(T)[i].tag]

C6_Witness ==
    /\ op = "GetColumnNames"
    /\ Len(T) = 3
    /\ \A i \in DOMAIN T : T[i].kind = "scalar"
    /\ columns = <<"id", "Name", "email">>

\* C7: the descendants of a nested-record field tagged "-" are spliced at its
\* position with no added prefix segment, and every column name under a
\* nested-record field with a normal tag t starts with t_.
C7_DashSplicedTagPrefixed ==
    (op = "GetColumnNames" /\ dest = StructPtr(T)) =>
        \A i \in DOMAIN T :
            /\ (IsNestedRecord(T[i]) /\ T[i].tag = "-")
                    => columns = ColumnsOf(Spliced(T, i))
            /\ (IsNestedRecord(T[i]) /\ T[i].tag \notin {"", "-"})
                    => \A k \in DOMAIN Contribution(T[i]) :
                            StartsWith(Contribution(T[i])[k], T[i].tag \o "_")

\* C8: an embedded record field adds no prefix segment: its descendants are
\* named, by both walks, as if they were declared in the enclosing record.
C8_EmbeddedNoPrefix ==
    (op = "GetColumnNames" /\ dest = StructPtr(T)) =>
        \A i \in DOMAIN T :
            (IsNestedRecord(T[i]) /\ T[i].anonymous /\ T[i].tag = "")
                => /\ columns = ColumnsOf(Spliced(T, i))
                   /\ DOMAIN CollectFields(StructValue(T, <<>>), "", EmptyMap)
                        = DOMAIN CollectFields(StructValue(Spliced(T, i), <<>>),
                                               "", EmptyMap)

-----------------------------------------------------------------------------
(* Properties of Get and Select (checked under Spec) *)

IsGet == op \in {"Wrapper.Get", "TxWrapper.Get"}
IsSelect == op \in {"Wrapper.Select", "TxWrapper.Select"}

\* the destination is one the operation supports
ValidGetDest == dest = StructPtr(T)
ValidSelectDest == dest \in {SlicePtr(T), PtrSlicePtr(T)}

\* the collaborator fails nowhere: query, row scans and iteration succeed
NoCollaboratorError ==
    /\ reply.queryErr = NoErr
    /\ reply.iterErr = NoErr
    /\ reply.scanErrAt = 0 \/ reply.scanErrAt > reply.n

Range(seq) == { seq[k] : k \in DOMAIN seq }

\* the result columns that no field of the destination type is named by
UnmappedColumns == Range(reply.cols) \ Range(ColumnsOf(T))

\* the first of them in the order of the result
FirstUnmapped ==
    reply.cols[CHOOSE j \in DOMAIN reply.cols :
                    /\ reply.cols[j] \in UnmappedColumns
                    /\ \A k \in 1..(j - 1) : reply.cols[k] \notin UnmappedColumns]

\* the element Select appended for row i
Appended(i) == slice[Len(slice0) + i]

\* C1: a Select that returns no error has appended one record per row, in row
\* order: the i-th appended element holds values of row i only, and holds the
\* value of every column of that row (of the last one of equally named columns).
C1_SelectAppendsRowsInOrder ==
    (IsSelect /\ err = NoErr) =>
        /\ Len(slice) = Len(slice0) + reply.n
        /\ \A i \in 1..reply.n :
            /\ \A p \in DOMAIN Appended(i).rec :
                    Appended(i).rec[p] \in {0} \cup Range(RowValues(reply, i))
            /\ \A j \in DOMAIN reply.cols :
                    (\A k \in DOMAIN reply.cols : k > j => reply.cols[k] # reply.cols[j])
                        => \E p \in DOMAIN Appended(i).rec :
                                Appended(i).rec[p] = Val(i, j)

C1_Witness ==
    /\ IsSelect
    /\ err = NoErr
    /\ reply.n = MaxRows
    /\ Len(slice0) = 1
    /\ Len(slice) = 1 + MaxRows
    /\ Len(reply.cols) = 3

\* the paths of the fields that have a column, in declaration order (depth
\* first): the k-th of them is the field the k-th derived column name names
RECURSIVE ColumnFieldsFrom(_, _, _)
ColumnFieldsFrom(t, i, path) ==
    IF i > Len(t) THEN <<>>
    ELSE (IF ~t[i].exported THEN <<>>
          ELSE IF t[i].kind = "struct"
          THEN ColumnFieldsFrom(t[i].fields, 1, Append(path, i))
          ELSE IF t[i].tag = "-" THEN <<>>
          ELSE << Append(path, i) >>)
         \o ColumnFieldsFrom(t, i + 1, path)

\* the field whose computed column name is name (the names being distinct)
FieldNamed(t, name) ==
    ColumnFieldsFrom(t, 1, <<>>)[CHOOSE k \in DOMAIN ColumnsOf(t) : ColumnsOf(t)[k] = name]

DistinctNames(cols) == \A a, b \in DOMAIN cols : a # b => cols[a] # cols[b]

\* C2: when the result columns are the destination's column names (distinct, as
\* the data model requires) in any order and the collaborator does not fail,
\* Select succeeds and the value of each column is in the field named by it.
C2_PermutedColumnsLand ==
    ( /\ IsSelect
      /\ ValidSelectDest
      /\ NoCollaboratorError
      /\ DistinctNames(ColumnsOf(T))
      /\ reply.cols \in ColumnOrders(ColumnsOf(T)) )
        => /\ err = NoErr
           /\ Len(slice) = Len(slice0) + reply.n
           /\ \A i \in 1..reply.n : \A j \in DOMAIN reply.cols :
                Appended(i).rec[FieldNamed(T, reply.cols[j])] = Val(i, j)

C2_Witness ==
    /\ IsSelect
    /\ T = UserAddress
    /\ reply.cols = << "address_city", "id", "address_street" >>
    /\ reply.n = MaxRows
    /\ err = NoErr
    /\ Appended(1).rec[<<2, 2>>] = Val(1, 1)

\* C3 as stated: whenever the result set Select obtained has a column that no
\* field maps to, Select fails with the error naming it, the result set closed.
C3_UnmappedColumnFails ==
    ( /\ IsSelect
      /\ ValidSelectDest
      /\ reply.queryErr = NoErr
      /\ UnmappedColumns # {} )
        => /\ \E c \in UnmappedColumns : err = ErrNoField(c)
           /\ rows.closed

\* C3 amended: the same once the result set has yielded a first row; the
\* error names the first such column and nothing is appended.
C3_UnmappedColumnFailsOnFirstRow ==
    ( /\ IsSelect
      /\ ValidSelectDest
      /\ reply.queryErr = NoErr
      /\ UnmappedColumns # {}
      /\ reply.n >= 1 )
        => /\ err = ErrNoField(FirstUnmapped)
           /\ rows.obtained /\ rows.closed
           /\ slice = slice0

C3_Witness ==
    /\ IsSelect
    /\ ValidSelectDest
    /\ reply.cols = << "id", "name", "extra_col" >>
    /\ reply.n = MaxRows
    /\ err = ErrNoField("extra_col")
    /\ rows.closed

\* C4: when the row returned to Get has a column that no field of the
\* destination maps to, Get fails with the field-not-found error naming it.
C4_GetUnmappedColumnFails ==
    ( /\ IsGet
      /\ ValidGetDest
      /\ reply.queryErr = NoErr
      /\ reply.n >= 1
      /\ UnmappedColumns # {} )
        => \E c \in UnmappedColumns : err = ErrNoField(c)

\* C9: Get returns the error of the row scan as it is; with no row and no
\* failure of the collaborator that is the empty-result error.
C9_GetReturnsScanError ==
    (IsGet /\ ValidGetDest) =>
        /\ calls = << (IF op = "Wrapper.Get" THEN "pool" ELSE "Tx") \o ".QueryRow",
                      "row.Scan" >>
        /\ err = RowScan(reply, fields, Zero(T)).err
        /\ (reply.queryErr = NoErr /\ reply.iterErr = NoErr /\ reply.n = 0)
                => err = ErrNoRows
        /\ reply.queryErr # NoErr => err = reply.queryErr

C9_Witness ==
    /\ IsGet
    /\ ValidGetDest
    /\ reply.n = 0
    /\ err = ErrNoRows
    /\ rec = Zero(T)

\* the same destination slice with elements of the other kind
Twin(d) == IF d = SlicePtr(T) THEN PtrSlicePtr(T) ELSE SlicePtr(T)
TwinSlice(sliceVal) ==
    [i \in DOMAIN sliceVal |-> [ptr |-> ~sliceVal[i].ptr, rec |-> sliceVal[i].rec]]
SelectAgain(d, sliceVal) ==
    IF op = "Wrapper.Select"
    THEN WrapperSelect(d, sliceVal, reply)
    ELSE TxWrapperSelect(d, sliceVal, reply)

\* C10: Select into []User and Select into []*User over the same result set
\* return the same error and slices of the same length whose elements have
\* the same field values; the elements are structs in one, pointers in the other.
C10_ValueAndPointerSlicesAgree ==
    (IsSelect /\ ValidSelectDest) =>
        LET twin == SelectAgain(Twin(dest), TwinSlice(slice0))
        IN  /\ twin.err = err
            /\ Len(twin.slice) = Len(slice)
            /\ \A i \in DOMAIN slice :
                /\ twin.slice[i].rec = slice[i].rec
                /\ slice[i].ptr = (dest = PtrSlicePtr(T))
                /\ twin.slice[i].ptr = (dest = SlicePtr(T))

C10_Witness ==
    /\ IsSelect
    /\ dest = PtrSlicePtr(T)
    /\ err = NoErr
    /\ reply.n = MaxRows
    /\ Len(slice) = Len(slice0) + MaxRows
    /\ \A i \in DOMAIN slice : slice[i].ptr

\* the number of calls of one name in a log of collaborator calls
Count(log, name) == Cardinality({ k \in DOMAIN log : log[k] = name })

\* the operation that was called, called again on other arguments
SelectWith(d, sliceVal, db) ==
    IF op = "Wrapper.Select"
    THEN WrapperSelect(d, sliceVal, db)
    ELSE TxWrapperSelect(d, sliceVal, db)

\* the row at which the Select fails: the first one when a result column has
\* no field, else the row whose scan fails, else the end of the result set
FailedRow ==
    IF UnmappedColumns # {} /\ reply.n >= 1 THEN 1
    ELSE IF reply.scanErrAt \in 1..reply.n THEN reply.scanErrAt
    ELSE reply.n + 1

\* the same response with no failing scan and no failing iteration
Unfailing(db) == [db EXCEPT !.scanErrAt = 0, !.iterErr = NoErr]

\* C11: a Select that fails on a row (field location, scan) or after the
\* iteration returns that error, has read no row after the failing one, has
\* scanned none after it, and leaves in the slice what was there plus the
\* records of the rows before the failing one, which is not appended.
C11_FailedIsTerminal ==
    ( /\ IsSelect
      /\ ValidSelectDest
      /\ reply.queryErr = NoErr
      /\ err # NoErr )
        => /\ err = (IF UnmappedColumns # {} /\ reply.n >= 1
                      THEN ErrNoField(FirstUnmapped)
                      ELSE IF reply.scanErrAt \in 1..reply.n THEN ErrScan
                      ELSE ErrIter)
           /\ Count(calls, "rows.Next") = FailedRow
           /\ Count(calls, "rows.Scan") = (IF err = ErrScan THEN FailedRow ELSE FailedRow - 1)
           /\ Count(calls, "rows.Err") = (IF err = ErrIter THEN 1 ELSE 0)
           /\ calls[Len(calls)] = "rows.Close"
           /\ calls[Len(calls) - 1] = (IF err = ErrScan THEN "rows.Scan"
                                       ELSE IF err = ErrIter THEN "rows.Err"
                                       ELSE "rows.Next")
           /\ Len(slice) = Len(slice0) + FailedRow - 1
           /\ slice = SubSeq(SelectWith(dest, slice0, Unfailing(reply)).slice,
                             1, Len(slice))
           /\ SubSeq(slice, 1, Len(slice0)) = slice0

C11_Witness ==
    /\ IsSelect
    /\ ValidSelectDest
    /\ reply.n = MaxRows
    /\ reply.scanErrAt = MaxRows
    /\ err = ErrScan
    /\ Len(slice0) = 1
    /\ Len(slice) = MaxRows
    /\ Appended(1).rec # Zero(T)

\* the exit paths of Select after the query, by the error returned
SelectExits ==
    { NoErr, ErrDestNotSlicePtr, ErrElemNotStruct, ErrScan, ErrIter }
    \cup { ErrNoField(c) : c \in Range(reply.cols) }

\* C12: a Select whose query gave a result set has closed it when it returns,
\* whatever the exit path: the close is the last call made to the collaborator
\* and is made once; a failed query gives no result set to close.
C12_ResultSetClosed ==
    IsSelect =>
        /\ rows.obtained = (reply.queryErr = NoErr)
        /\ rows.obtained =>
                /\ rows.closed
                /\ err \in SelectExits
                /\ Count(calls, "rows.Close") = 1
                /\ calls[Len(calls)] = "rows.Close"
        /\ ~rows.obtained => Count(calls, "rows.Close") = 0 /\ err = reply.queryErr

\* an exit on an error in the middle of the iteration, the result set closed
C12_Witness ==
    /\ IsSelect
    /\ ValidSelectDest
    /\ reply.n = MaxRows
    /\ reply.scanErrAt = 1
    /\ err = ErrScan
    /\ rows.obtained /\ rows.closed
    /\ calls[Len(calls)] = "rows.Close"

\* the errors of the class InvalidArgument
InvalidArgument == { ErrDestNotStructPtr, ErrInputNotStructPtr, ErrDestNotSlicePtr }

\* the destination is a struct passed by value, a pointer to something that
\* is no struct, an untyped nil or a nil pointer to a struct
InvalidGetDest == dest \in GetDests(T) \ { StructPtr(T) }

\* C13: on a destination that is not a non-nil pointer to a struct,
\* GetColumnNames, StructFieldsPointers and Get fail with their invalid
\* argument error and return no column name and no reference; Get leaves the
\* destination alone and asks nothing of the collaborator.
C13_InvalidDestinationRejected ==
    InvalidGetDest =>
        /\ op = "GetColumnNames"
                => err = ErrDestNotStructPtr /\ columns = <<>>
        /\ op = "StructFieldsPointers(columns)"
                => err = ErrInputNotStructPtr /\ fields = <<>>
        /\ IsGet => /\ err = ErrDestNotStructPtr
                    /\ columns = <<>> /\ fields = <<>>
                    /\ calls = <<>>
                    /\ rec = Zero(T)
        /\ op # "none" => err \in InvalidArgument

\* StructFieldsPointers refusing a nil pointer to a struct
C13_Witness ==
    /\ op = "StructFieldsPointers(columns)"
    /\ dest.kind = "ptr" /\ dest.elem = "invalid"
    /\ Len(columns) = 2
    /\ err = ErrInputNotStructPtr
    /\ fields = <<>>

\* the destination of Select is no pointer to a slice
NotSlicePtr == dest.kind # "ptr" \/ dest.elem # "slice"

\* it is one, of elements that are neither structs nor pointers to structs
WrongElemType ==
    /\ ~NotSlicePtr
    /\ dest.elemKind # "struct"
    /\ ~(dest.elemKind = "ptr" /\ dest.elemElem = "struct")

\* the errors of the class NoMatchingType
NoMatchingType == { ErrElemNotStruct }

\* nothing asked of the result set, which is closed
NoRowRead ==
    /\ Count(calls, "rows.Next") = 0
    /\ Count(calls, "rows.Scan") = 0
    /\ Count(calls, "rows.FieldDescriptions") = 0

\* C14 as stated: Select fails with the invalid argument error when the
\* destination is no pointer to a slice and with the element type error when
\* the elements are neither structs nor pointers to structs, no row read and
\* the destination unchanged.
C14_InvalidSelectDestination ==
    IsSelect =>
        /\ NotSlicePtr => err = ErrDestNotSlicePtr /\ NoRowRead /\ slice = slice0
        /\ WrongElemType => err = ErrElemNotStruct /\ NoRowRead /\ slice = slice0

\* C14 amended: the same of a Select whose query has succeeded; the query is
\* made first, and its error is what Select returns when it fails.
C14_InvalidSelectDestinationAfterQuery ==
    (IsSelect /\ (NotSlicePtr \/ WrongElemType)) =>
        /\ Len(calls) >= 1 /\ calls[1] \in {"pool.Query", "Tx.Query"}
        /\ NoRowRead
        /\ slice = slice0
        /\ reply.queryErr # NoErr => err = reply.queryErr
        /\ reply.queryErr = NoErr =>
                /\ NotSlicePtr => err = ErrDestNotSlicePtr /\ err \in InvalidArgument
                /\ WrongElemType => err = ErrElemNotStruct /\ err \in NoMatchingType
                /\ Len(calls) = 2 /\ calls[2] = "rows.Close"

\* a slice of pointers to int holding an element, a result set of rows
C14_Witness ==
    /\ IsSelect
    /\ WrongElemType
    /\ dest.elemKind = "ptr"
    /\ reply.queryErr = NoErr
    /\ reply.n = MaxRows
    /\ Len(slice0) = 1
    /\ slice = slice0
    /\ err = ErrElemNotStruct

\* a nested struct held by pointer that the walks do not pass over
IsReference(f) == f.exported /\ f.kind = "ptr" /\ f.tag # "-"

\* C15: when StructFieldsPointers meets a field that is a nil pointer to a
\* struct, it sets the pointer to a new struct and descends: after the call
\* the pointer is not nil and the columns of the fields of the struct pointed
\* to are located.
C15_NilReferenceAllocated ==
    [][ \A i \in DOMAIN T :
            ( /\ op' \in {"StructFieldsPointers(columns)", "structFieldsPointers"}
              /\ dest' = StructPtr(T)
              /\ IsReference(T[i])
              /\ rec[<<i>>] = 0 )
                => /\ rec'[<<i>>] # 0
                   /\ Range(columns') \subseteq Range(ColumnsOf(Deref(T)))
                        => err' = NoErr /\ Len(fields') = Len(columns') ]_vars

\* the column names that two fields of the struct type t compute
SharedNames(t) ==
    { ColumnsOf(t)[a] : a \in { b \in DOMAIN ColumnsOf(t) :
            \E c \in DOMAIN ColumnsOf(t) : c # b /\ ColumnsOf(t)[c] = ColumnsOf(t)[b] } }

\* C16: for a struct type in which two fields compute the same column name,
\* GetColumnNames does not return success, and StructFieldsPointers given the
\* shared name does not return success with a reference to one of the two.
C16_CollisionNotSilentlyResolved ==
    (dest = StructPtr(T) /\ SharedNames(T) # {}) =>
        /\ op = "GetColumnNames" => err # NoErr
        /\ ( /\ op \in {"StructFieldsPointers", "StructFieldsPointers(columns)"}
             /\ Range(columns) \cap SharedNames(T) # {} ) => err # NoErr

\* C17: a StructFieldsPointers that succeeds returns one reference per column
\* name given, in the order given: the i-th reference is to a field that
\* GetColumnNames passes over nowhere (a settable one) and whose computed
\* column name is the i-th name; the names may be any of the destination's,
\* in any order.
C17_OneReferencePerColumnInOrder ==
    ( /\ op = "StructFieldsPointers(columns)"
      /\ dest = StructPtr(T)
      /\ err = NoErr )
        => /\ Len(fields) = Len(columns)
           /\ \A i \in DOMAIN columns :
                \E k \in DOMAIN ColumnsOf(T) :
                    /\ ColumnsOf(T)[k] = columns[i]
                    /\ ColumnFieldsFrom(T, 1, <<>>)[k] = fields[i]
           /\ DistinctNames(ColumnsOf(T))
                => \A i \in DOMAIN columns : fields[i] = FieldNamed(T, columns[i])

\* two of three columns, the last declared one first
C17_Witness ==
    /\ op = "StructFieldsPointers(columns)"
    /\ dest = StructPtr(T)
    /\ err = NoErr
    /\ Len(ColumnsOf(T)) = 3
    /\ DistinctNames(ColumnsOf(T))
    /\ columns = << ColumnsOf(T)[3], ColumnsOf(T)[1] >>
    /\ fields = << ColumnFieldsFrom(T, 1, <<>>)[3], ColumnFieldsFrom(T, 1, <<>>)[1] >>

\* the fields that are not passed over, at any depth
KeptPaths(t) == Range(ColumnFieldsFrom(t, 1, <<>>))

\* the entries of the field map of a destination of type t
MappedPaths(t) ==
    LET fieldMap == CollectFields(StructValue(t, <<>>), "", EmptyMap)
    IN  { fieldMap[c] : c \in DOMAIN fieldMap }

\* C18 as stated: an unexported field and a scalar field tagged "-", at any
\* depth, give no column name and no entry of the field map, and a column
\* called by the name or the tag of such a field makes StructFieldsPointers
\* fail with the field-not-found error.
C18_ExcludedFieldsContributeNothing ==
    dest = StructPtr(T) =>
        /\ op = "GetColumnNames" => Len(columns) = Cardinality(KeptPaths(T))
        /\ op = "StructFieldsPointers(columns)" =>
                /\ MappedPaths(T) \subseteq KeptPaths(T)
                /\ Range(fields) \subseteq KeptPaths(T)
                /\ Range(columns) \cap ExcludedNames(T, "") # {}
                        => /\ fields = <<>>
                           /\ err \in { ErrNoField(c) : c \in Range(columns) }

\* C18 amended: the same, the column being one that no other field computes
\* as its column name; a column that a field computes is located in that
\* field, never in the field passed over.
C18_ExcludedFieldsContributeNothingOfTheirOwn ==
    dest = StructPtr(T) =>
        /\ op = "GetColumnNames" => Len(columns) = Cardinality(KeptPaths(T))
        /\ op = "StructFieldsPointers(columns)" =>
                /\ MappedPaths(T) \subseteq KeptPaths(T)
                /\ Range(fields) \subseteq KeptPaths(T)
                /\ (Range(columns) \cap ExcludedNames(T, ""))
                        \ Range(ColumnsOf(T)) # {}
                        => /\ fields = <<>>
                           /\ err \in { ErrNoField(c) :
                                    c \in Range(columns) \ Range(ColumnsOf(T)) }

\* the tag, behind the prefix of its struct, of an unexported field at depth 2
C18_Witness ==
    /\ op = "StructFieldsPointers(columns)"
    /\ dest = StructPtr(T)
    /\ \E i \in DOMAIN T :
            /\ IsNestedRecord(T[i])
            /\ \E j \in DOMAIN T[i].fields : ~T[i].fields[j].exported
    /\ Len(columns) = 1
    /\ columns[1] \in ExcludedNames(T, "") \ Range(ColumnsOf(T))
    /\ \E a, b \in 1..Len(columns[1]) : SubSeq(columns[1], a, b) = "_"
    /\ err = ErrNoField(columns[1])

\* C19: Get looks at the destination, derives the column names and locates
\* the references before it asks anything of the collaborator: on an invalid
\* destination it returns the invalid argument error having made no call; on
\* a valid one it asks for the row once and has it scanned once, into the
\* references of the derived names in the order derived (the value of column
\* j of the row is, after a scan that succeeds, in the field of the j-th name).
C19_GetLocatesBeforeQuery ==
    IsGet =>
        /\ ~ValidGetDest => err = ErrDestNotStructPtr /\ calls = <<>> /\ rec = Zero(T)
        /\ ValidGetDest =>
            /\ Len(calls) = 2
            /\ calls[1] \in {"pool.QueryRow", "Tx.QueryRow"}
            /\ calls[2] = "row.Scan"
            /\ columns = ColumnsOf(T)
            /\ Len(fields) = Len(columns)
            /\ \A j \in DOMAIN columns :
                    \E k \in DOMAIN ColumnsOf(T) :
                        /\ ColumnsOf(T)[k] = columns[j]
                        /\ ColumnFieldsFrom(T, 1, <<>>)[k] = fields[j]
            /\ DistinctNames(ColumnsOf(T)) => fields = ColumnFieldsFrom(T, 1, <<>>)
            /\ err = NoErr =>
                    \A j \in DOMAIN fields :
                        (\A k \in DOMAIN fields : k > j => fields[k] # fields[j])
                            => rec[fields[j]] = Val(1, j)

C19_Witness ==
    /\ IsGet
    /\ T = UserAddress
    /\ ValidGetDest
    /\ calls \in { << "pool.QueryRow", "row.Scan" >>, << "Tx.QueryRow", "row.Scan" >> }
    /\ columns = << "id", "address_street", "address_city" >>
    /\ fields = << <<1>>, <<2, 1>>, <<2, 2>> >>
    /\ err = NoErr
    /\ rec[<<2, 2>>] = Val(1, 3)

\* a log of collaborator calls with the receiver of the query left out
Methods(log) ==
    [k \in DOMAIN log |->
        IF log[k] \in {"pool.QueryRow", "Tx.QueryRow"} THEN "QueryRow"
        ELSE IF log[k] \in {"pool.Query", "Tx.Query"} THEN "Query"
        ELSE log[k]]

\* the call that has returned, made on the wrapper of the other context with
\* the same destination and the same responses of the collaborator
OtherContext ==
    IF op = "Wrapper.Get"
    THEN [TxWrapperGet(dest, Zero(T), reply) EXCEPT !.calls = Methods(@)]
         @@ [slice |-> slice, rows |-> rows]
    ELSE IF op = "TxWrapper.Get"
    THEN [WrapperGet(dest, Zero(T), reply) EXCEPT !.calls = Methods(@)]
         @@ [slice |-> slice, rows |-> rows]
    ELSE IF op = "Wrapper.Select"
    THEN [TxWrapperSelect(dest, slice0, reply) EXCEPT !.calls = Methods(@)]
         @@ [rec |-> rec]
    ELSE [WrapperSelect(dest, slice0, reply) EXCEPT !.calls = Methods(@)]
         @@ [rec |-> rec]

\* C20: Get and Select of the pool wrapper and of the transaction wrapper,
\* given the same destination and the same responses of the collaborator,
\* make the same calls to it in the same order (on the pool or on the
\* transaction), leave the destination struct or slice in the same state and
\* return the same error.
C20_PoolAndTxAgree ==
    (IsGet \/ IsSelect) =>
        /\ OtherContext.calls = Methods(calls)
        /\ OtherContext.err = err
        /\ OtherContext.rec = rec
        /\ OtherContext.slice = slice
        /\ OtherContext.rows = rows
        /\ OtherContext.columns = columns
        /\ OtherContext.fields = fields
        /\ \A k \in DOMAIN calls :
                calls[k] \in {"pool.QueryRow", "pool.Query"} => op \in {"Wrapper.Get", "Wrapper.Select"}
        /\ \A k \in DOMAIN calls :
                calls[k] \in {"Tx.QueryRow", "Tx.Query"} => op \in {"TxWrapper.Get", "TxWrapper.Select"}

\* a Select in a transaction that appends every row and returns the error of
\* the iteration, as the Select on the pool does
C20_Witness ==
    /\ op = "TxWrapper.Select"
    /\ dest = PtrSlicePtr(T)
    /\ reply.n = MaxRows
    /\ err = ErrIter
    /\ Len(slice0) = 1
    /\ Len(slice) = 1 + MaxRows
    /\ WrapperSelect(dest, slice0, reply).slice = slice
    /\ WrapperSelect(dest, slice0, reply).err = ErrIter

\* the Get that was called, called again on other arguments
GetWith(d, r, db) ==
    IF op = "Wrapper.Get" THEN WrapperGet(d, r, db) ELSE TxWrapperGet(d, r, db)

\* the same response, its columns called by names no field has
Renamed(db) == [db EXCEPT !.cols = [j \in DOMAIN db.cols |-> "extra_col"]]

C22_FieldsLocatedPerRow ==
    (IsSelect /\ ValidSelectDest /\ reply.queryErr = NoErr) =>
        /\ (reply.n = 0 /\ reply.iterErr = NoErr) =>
                /\ err = NoErr
                /\ slice = slice0
                /\ Methods(calls) = << "Query", "rows.FieldDescriptions",
                                      "rows.Next", "rows.Err", "rows.Close" >>
        /\ (reply.n = 0 /\ reply.iterErr # NoErr) => err = reply.iterErr
        /\ (reply.n >= 1 /\ UnmappedColumns # {}) =>
                /\ err = ErrNoField(FirstUnmapped)
                /\ Methods(calls) = << "Query", "rows.FieldDescriptions",
                                      "rows.Next", "rows.Close" >>

\* no row, a column that no field of the elements has, and no error
C22_Witness ==
    /\ IsSelect
    /\ ValidSelectDest
    /\ reply.queryErr = NoErr
    /\ reply.n = 0
    /\ reply.iterErr = NoErr
    /\ "extra_col" \in UnmappedColumns
    /\ Len(slice0) = 1
    /\ slice = slice0
    /\ err = NoErr

\* C23: Select makes the query before it looks at the destination.  On a
\* destination that is no pointer to a slice, or whose elements are neither
\* structs nor pointers to structs, the query has been made, the result set
\* it gave is closed with no row read, and the error of the destination is
\* returned; only when the query fails is the destination not looked at, and
\* the error of the query returned, whatever the destination.
C23_SelectQueriesBeforeValidating ==
    IsSelect =>
        /\ Len(calls) >= 1 /\ Methods(calls)[1] = "Query"
        /\ Count(Methods(calls), "Query") = 1
        /\ reply.queryErr # NoErr =>
                /\ err = reply.queryErr
                /\ Len(calls) = 1
                /\ ~rows.obtained
        /\ (reply.queryErr = NoErr /\ (NotSlicePtr \/ WrongElemType)) =>
                /\ err = (IF NotSlicePtr THEN ErrDestNotSlicePtr ELSE ErrElemNotStruct)
                /\ rows.obtained /\ rows.closed
                /\ Methods(calls) = << "Query", "rows.Close" >>
        /\ (reply.queryErr = NoErr /\ ValidSelectDest) =>
                err \notin {ErrDestNotSlicePtr, ErrElemNotStruct}

\* a pointer to a struct given to Select, a result set of rows
C23_Witness ==
    /\ op = "Wrapper.Select"
    /\ dest = StructPtr(T)
    /\ reply.queryErr = NoErr
    /\ reply.n = MaxRows
    /\ calls = << "pool.Query", "rows.Close" >>
    /\ rows.obtained /\ rows.closed
    /\ err = ErrDestNotSlicePtr

\* the rows of the response that Select scans without error: none when the
\* query fails, the destination is not supported or a column has no field;
\* else the rows before the one whose scan fails
ScannedRows ==
    IF reply.queryErr # NoErr \/ ~ValidSelectDest THEN 0
    ELSE IF reply.n >= 1 /\ UnmappedColumns # {} THEN 0
    ELSE IF reply.scanErrAt \in 1..reply.n THEN reply.scanErrAt - 1
    ELSE reply.n

\* C24: Select only appends.  Whether it succeeds or fails, the elements the
\* slice held before the call are the first elements of the slice after it,
\* unchanged and in their places, and the length after is the length before
\* plus the number of rows scanned without error (the scans asked for, less
\* the one that failed).
C24_SelectOnlyAppends ==
    IsSelect =>
        /\ Len(slice) >= Len(slice0)
        /\ \A i \in DOMAIN slice0 : slice[i] = slice0[i]
        /\ Len(slice) = Len(slice0) + ScannedRows
        /\ ScannedRows = Count(calls, "rows.Scan")
                            - (IF err \in {ErrScan, ErrColumnCount} THEN 1 ELSE 0)

\* every row appended behind the element of before, and the iteration failing
C24_Witness ==
    /\ IsSelect
    /\ dest = SlicePtr(T)
    /\ Len(slice0) = 1
    /\ reply.n = MaxRows
    /\ err = ErrIter
    /\ Len(slice) = 1 + MaxRows
    /\ slice[1] = slice0[1]
    /\ slice[1].rec = Old(T)
    /\ DOMAIN Old(T) # {}

====
